---- MODULE Spec2Model ----
(***************************************************************************)
(* RISC-V UART bootloader: boot decision, image validation and the update  *)
(* protocol (src/src/main.c, src/src/flash.c, boards/qemu_virt/platform.c).*)
(*                                                                         *)
(* 32-bit unsigned values (uint32_t) are pairs <<hi, lo>> of 16-bit halves *)
(* so that arithmetic keeps its width: every operation is taken mod 2^32.  *)
(* The application region is modelled byte by byte: the 16 header bytes    *)
(* and the first MaxPayload payload bytes; every payload byte behind that  *)
(* window is at the erased value 0xFF.                                     *)
(***************************************************************************)
EXTENDS Integers, Sequences, FiniteSets

\* ------------------------------------------------------------------ bounds
\* Number of payload bytes of the application region that are modelled
\* explicitly; the host declares sizes up to this bound (or invalid ones).
MaxPayload == 2

\* ------------------------------------------------------- program constants
\* sizeof(fw_header_t): four uint32_t fields.
HeaderSize == 16
\* APP_MAX_SIZE (448 * 1024).
APP_MAX_SIZE == 458752
\* The value platform_flash_erase fills the region with.
ERASED == 255
\* '\r' and '\n', the two bytes that end the size field.
CR == 13
LF == 10
\* 'u' and 'U', the enter-update symbols.
LowerU == 117
UpperU == 85
\* '0' and '9'.
Digit0 == 48
Digit9 == 57

\* --------------------------------------------------------- uint32_t values
\* A number below 2^31 as a uint32_t.
ToU32(n) == <<n \div 65536, n % 65536>>

\* a <= b and a > b on uint32_t.
U32Leq(a, b) == a[1] < b[1] \/ (a[1] = b[1] /\ a[2] <= b[2])
U32Gt(a, b) == ~U32Leq(a, b)

\* a < b on uint32_t.
U32Lt(a, b) == a # b /\ U32Leq(a, b)

\* a + b in uint32_t arithmetic (wraps mod 2^32).
U32Add(a, b) ==
    LET lo == a[2] + b[2]
        hi == a[1] + b[1] + (lo \div 65536)
    IN  <<hi % 65536, lo % 65536>>

\* a + b exceeds 2^32 - 1: the uint32_t sum wraps.
U32Carry(a, b) == a[1] + b[1] + ((a[2] + b[2]) \div 65536) >= 65536

\* a - b in uint32_t arithmetic (wraps mod 2^32).
U32Sub(a, b) ==
    LET lo == a[2] - b[2] + 65536
        hi == a[1] - b[1] + 65535 + (lo \div 65536)
    IN  <<hi % 65536, lo % 65536>>

U32Zero == <<0, 0>>
U32Ones == <<65535, 65535>>

\* Faulty variant, for sensitivity analysis: the accumulation saturates instead of wrapping.
U32Mul10Add_Saturating(w, d) ==
    LET lo10 == w[2] * 10 + d
        hi10 == w[1] * 10 + (lo10 \div 65536)
    IN  IF hi10 >= 65536 THEN <<65535, 65535>> ELSE <<hi10, lo10 % 65536>>

\* size * 10 + d in uint32_t arithmetic (wraps mod 2^32).
U32Mul10Add(w, d) ==
    LET lo10 == w[2] * 10 + d
        hi10 == w[1] * 10 + (lo10 \div 65536)
    IN  <<hi10 % 65536, lo10 % 65536>>

\* Little-endian bytes of a uint32_t, as the RV32 target stores it.
U32Bytes(w) == <<w[2] % 256, w[2] \div 256, w[1] % 256, w[1] \div 256>>

\* Bitwise exclusive or of two naturals below 2^n.
RECURSIVE XorN(_, _, _)
XorN(a, b, n) ==
    IF n = 0 THEN 0
    ELSE ((a + b) % 2) + 2 * XorN(a \div 2, b \div 2, n - 1)

U32Xor(a, b) == <<XorN(a[1], b[1], 16), XorN(a[2], b[2], 16)>>
U32Shr(w) == <<w[1] \div 2, (w[2] \div 2) + (w[1] % 2) * 32768>>
U32Shr8(w) == <<w[1] \div 256, (w[1] % 256) * 256 + (w[2] \div 256)>>
U32Not(w) == <<65535 - w[1], 65535 - w[2]>>

\* ------------------------------------------------------------------- crc32
\* The reflected CRC-32 polynomial 0xEDB88320 of zlib.
CrcPoly == <<60856, 33568>>

RECURSIVE CrcBits(_, _)
CrcBits(c, k) ==
    IF k = 0 THEN c
    ELSE CrcBits(IF c[2] % 2 = 1 THEN U32Xor(U32Shr(c), CrcPoly) ELSE U32Shr(c),
                 k - 1)

\* The byte table of the table-driven form: entry i is i run through 8 bit steps.
CrcTable == [i \in 0..255 |-> CrcBits(<<0, i>>, 8)]

\* One byte of the table-driven loop: c = table[(c ^ b) & 0xFF] ^ (c >> 8).
\* (c is bound once, so that the running value is computed once per byte.)
CrcByte(c, b) ==
    LET Step(v) == U32Xor(CrcTable[XorN(v[2] % 256, b, 8)], U32Shr8(v))
    IN  CHOOSE r \in {Step(v) : v \in {c}} : TRUE

RECURSIVE CrcRun(_, _)
CrcRun(c, bytes) ==
    IF bytes = <<>> THEN c ELSE CrcRun(CrcByte(c, Head(bytes)), Tail(bytes))

\* Faulty variant, for sensitivity analysis: the last byte is left out of the checksum.
crc32_DropsLast(bytes) ==
    U32Not(CrcRun(U32Ones, SubSeq(bytes, 1, IF bytes = <<>> THEN 0 ELSE Len(bytes) - 1)))

\* crc32(data, len): initial value 0xFFFFFFFF, final complement.
crc32(bytes) == U32Not(CrcRun(U32Ones, bytes))


\* ------------------------------------------------------ application region
\* Offsets are relative to APP_BASE. The modelled window of the region.
WinLen == HeaderSize + MaxPayload
Offsets == 0..(WinLen - 1)

\* BOOT_MAGIC 0x5256424C, "RVBL".
BOOT_MAGIC == ToU32(1381384780)

\* APP_MAX_SIZE - sizeof(fw_header_t), the payload capacity.
PayloadCapacity == ToU32(APP_MAX_SIZE - HeaderSize)

\* A uint32_t no greater than the payload capacity, as a number.
U32Nat(w) == w[1] * 65536 + w[2]

\* The uint32_t stored little-endian at offset off.
ReadU32(m, off) == <<m[off + 3] * 256 + m[off + 2], m[off + 1] * 256 + m[off]>>

\* The byte at payload offset i (APP_BASE + sizeof(fw_header_t) + i).
PayloadAt(m, i) == IF HeaderSize + i < WinLen THEN m[HeaderSize + i] ELSE ERASED

\* The first n payload bytes.
Payload(m, n) == [i \in 1..n |-> PayloadAt(m, i - 1)]

\* fw_header_t read through the pointer (const fw_header_t *)APP_BASE.
fw_header_t(m) ==
    [magic |-> ReadU32(m, 0), size |-> ReadU32(m, 4),
     crc32 |-> ReadU32(m, 8), version |-> ReadU32(m, 12)]

\* The 16 bytes of a header record in storage order.
HeaderBytes(h) ==
    U32Bytes(h.magic) \o U32Bytes(h.size) \o U32Bytes(h.crc32) \o U32Bytes(h.version)

\* --------------------------------------------------------- storage gateway
\* The byte loop of platform_flash_write: bytes stored from offset off on.
platform_flash_write(m, off, bytes) ==
    [i \in DOMAIN m |->
        IF off <= i /\ i < off + Len(bytes) THEN bytes[i - off + 1] ELSE m[i]]

\* The byte loop of platform_flash_erase stopped after its first k bytes.
ErasePrefix(m, k) == [i \in DOMAIN m |-> IF i < k THEN ERASED ELSE m[i]]

\* Faulty variant, for sensitivity analysis: the erase spares the header area.
flash_erase_app_PayloadOnly(m) ==
    [i \in DOMAIN m |-> IF i >= HeaderSize THEN ERASED ELSE m[i]]

\* platform_flash_erase over the whole partition.
platform_flash_erase(m) == ErasePrefix(m, WinLen)

flash_erase_app(m) == platform_flash_erase(m)

flash_write_header(m, h) == platform_flash_write(m, 0, HeaderBytes(h))

\* APP_BASE 0x80010000 and APP_BASE + APP_MAX_SIZE, in unsigned 32-bit arithmetic.
APP_BASE == <<32769, 0>>
AppLimit == U32Add(APP_BASE, ToU32(APP_MAX_SIZE))

\* The byte loop of platform_flash_write called with an address: dest[k] = src[k]
\* for k < n, every src[k] being b. The byte of the window at offset i is
\* dest[k] for k = APP_BASE + i - addr, a uint32_t difference.
platform_flash_write_at(m, addr, n, b) ==
    [i \in DOMAIN m |->
        IF U32Lt(U32Sub(U32Add(APP_BASE, ToU32(i)), addr), n) THEN b ELSE m[i]]

\* Faulty variant, for sensitivity analysis: the lower bound of the range is not tested.
flash_write_NoLowerBound(addr, sz, hw) ==
    IF U32Gt(U32Add(addr, sz), AppLimit)
    THEN [ret |-> -1, calls |-> 0]
    ELSE [ret |-> hw, calls |-> 1]

\* flash_write(addr, data, size): the bounds test, then the platform call,
\* which returns hw. addr + size is a uint32_t sum (size_t has 32 bits on RV32).
flash_write(addr, sz, hw) ==
    IF U32Lt(addr, APP_BASE) \/ U32Gt(U32Add(addr, sz), AppLimit)
    THEN [ret |-> -1, calls |-> 0]
    ELSE [ret |-> hw, calls |-> 1]

\* ---------------------------------------------------------- serial output
MsgBadMagic == "Error: Invalid magic number"
MsgBadSize == "Error: Invalid firmware size"
MsgBadCrc == "Error: CRC mismatch"
MsgRecovery == "Recovery Loop: No valid app found. Press 'u' to update."
MsgEcho == "<echo>"

print_banner ==
    <<"======================================",
      "   Professional RISC-V Bootloader    ",
      "   Target: QEMU Virt (RV32IM)        ",
      "======================================">>

\* ---------------------------------------------------------- image validator
\* Faulty variant, for sensitivity analysis: the size test without its test for zero.
HeaderSizeBad_NoZero(sz) == U32Gt(sz, PayloadCapacity)

\* The size test of validate_app.
HeaderSizeBad(sz) == sz = U32Zero \/ U32Gt(sz, PayloadCapacity)

\* Faulty variant, for sensitivity analysis: the checksum is taken over the whole modelled payload area.
HeaderCrcCalc_WholeWindow(m, h) == crc32(Payload(m, MaxPayload))

\* The checksum validate_app recomputes: over header->size payload bytes.
HeaderCrcCalc(m, h) == crc32(Payload(m, U32Nat(h.size)))

\* The length validate_app hands to crc32.
ScanLen(h) == U32Nat(h.size)

\* Faulty variant, for sensitivity analysis: validate_app without its magic test.
validate_app_NoMagic(m) ==
    LET header == fw_header_t(m)
    IN  IF HeaderSizeBad(header.size)
        THEN [ret |-> -1, out |-> <<MsgBadSize>>, scan |-> -1]
        ELSE IF HeaderCrcCalc(m, header) # header.crc32
        THEN [ret |-> -1, out |-> <<MsgBadCrc>>, scan |-> ScanLen(header)]
        ELSE [ret |-> 0, out |-> <<>>, scan |-> ScanLen(header)]

\* Faulty variant, for sensitivity analysis: the magic is tested last.
validate_app_MagicLast(m) ==
    LET header == fw_header_t(m)
    IN  IF HeaderSizeBad(header.size)
        THEN [ret |-> -1, out |-> <<MsgBadSize>>, scan |-> -1]
        ELSE IF HeaderCrcCalc(m, header) # header.crc32
        THEN [ret |-> -1, out |-> <<MsgBadCrc>>, scan |-> ScanLen(header)]
        ELSE IF header.magic # BOOT_MAGIC
        THEN [ret |-> -1, out |-> <<MsgBadMagic>>, scan |-> ScanLen(header)]
        ELSE [ret |-> 0, out |-> <<>>, scan |-> ScanLen(header)]

\* Faulty variant, for sensitivity analysis: the size is tested before the magic.
validate_app_SizeFirst(m) ==
    LET header == fw_header_t(m)
    IN  IF HeaderSizeBad(header.size)
        THEN [ret |-> -1, out |-> <<MsgBadSize>>, scan |-> -1]
        ELSE IF header.magic # BOOT_MAGIC
        THEN [ret |-> -1, out |-> <<MsgBadMagic>>, scan |-> -1]
        ELSE IF HeaderCrcCalc(m, header) # header.crc32
        THEN [ret |-> -1, out |-> <<MsgBadCrc>>, scan |-> ScanLen(header)]
        ELSE [ret |-> 0, out |-> <<>>, scan |-> ScanLen(header)]

\* validate_app: the return value, the error line it prints and the number
\* of payload bytes it had crc32 read (-1: crc32 was not called).
validate_app(m) ==
    LET header == fw_header_t(m)
    IN  IF header.magic # BOOT_MAGIC
        THEN [ret |-> -1, out |-> <<MsgBadMagic>>, scan |-> -1]
        ELSE IF HeaderSizeBad(header.size)
        THEN [ret |-> -1, out |-> <<MsgBadSize>>, scan |-> -1]
        ELSE IF HeaderCrcCalc(m, header) # header.crc32
        THEN [ret |-> -1, out |-> <<MsgBadCrc>>, scan |-> ScanLen(header)]
        ELSE [ret |-> 0, out |-> <<>>, scan |-> ScanLen(header)]

\* -------------------------------------------------------------- host input
\* The command token "SEND ".
cmd == <<83, 69, 78, 68, 32>>

\* Bytes the host may send at the boot prompt and in the recovery loop:
\* LF, CR, 'S', 'U', 'u'.
PromptBytes == {LF, CR, 83, UpperU, LowerU}

\* Bytes the host may send in the command phase: "SEND " and 's'.
CmdBytes == {83, 69, 78, 68, 32, 115}

\* Bytes the host may send in the size field: digits, 'x' and the terminators.
SizeBytes == (Digit0..Digit9) \cup {120, CR, LF}

\* Bytes the host may send as payload.
DataBytes == {LF, CR, LowerU}

\* Size fields the host may send (the bytes before the line terminator):
\* empty, one digit 0..MaxPayload, "x1", "458737" (capacity + 1),
\* "4294967296" (2^32) and "4294967297" (2^32 + 1).
SizeLines ==
    {<<>>, <<120, 49>>, <<52, 53, 56, 55, 51, 55>>,
     <<52, 50, 57, 52, 57, 54, 55, 50, 57, 54>>,
     <<52, 50, 57, 52, 57, 54, 55, 50, 57, 55>>}
    \cup {<<Digit0 + n>> : n \in 0..MaxPayload}

LinePrefixes == UNION {{SubSeq(l, 1, k) : k \in 0..Len(l)} : l \in SizeLines}

\* Declared sizes the model follows to the end: the invalid ones and those
\* whose payload fits the modelled window.
SizeModelled(sz) ==
    sz = U32Zero \/ U32Gt(sz, PayloadCapacity) \/ U32Leq(sz, ToU32(MaxPayload))

\* Numbers of bytes a platform_flash_erase that returns -1 may have erased
\* (the platform of the repository returns 0 on every path; main.c and
\* flash.c take what the platform behind the interface of boot.h does).
EraseFailPrefixes == {0, 1, WinLen}

\* Numbers of header bytes a platform_flash_write that returns -1 may have
\* stored: none to all.
HeaderFailPrefixes == 0..HeaderSize

\* ------------------------------------------------------------------- state
VARIABLES
    newMain,     \* the main.c of the build: TRUE for the revision that prints
                 \* APP_HANDOFF and reads PLATFORM_DIRECT_BOOT_AFTER_UPDATE
                 \* (unnamed/part_005), FALSE for src/main.c, which does neither
    directBoot,  \* PLATFORM_DIRECT_BOOT_AFTER_UPDATE of the build's platform.h
    mem,         \* the application region, by offset from APP_BASE
    pc,          \* where the controller is blocked
    caller,      \* which loop of main called uart_update
    j,           \* loop index of uart_update
    size,        \* uart_update's size
    line,        \* bytes of the size line read so far, with the terminator
                 \* of an accepted line
    rx,          \* the byte the last uart_getc returned, -1 before the first
    out,         \* lines emitted since the controller last read at top level
    ops,         \* storage operations since the controller last read at top level
    validated,   \* validate_app returned 0 in this boot, no storage write since
    cut,         \* header bytes stored when a reset cut the last session after
                 \* its erase (0: before the header write), -1 if none did
    corrupted,   \* payload bytes changed on the wire since the last top-level read
    recvd,       \* payload bytes uart_getc returned since the last top-level read
    nread,       \* bytes uart_getc returned to uart_update in the session that
                 \* runs or has committed, 0 otherwise
    fw_addr,     \* flash_write: its addr argument
    fw_size,     \* flash_write: its size argument
    fw_data,     \* flash_write: the byte its data argument holds at every index
    fw_ret,      \* flash_write: its return value
    hw_calls     \* flash_write: calls of platform_flash_write it made

\* The arguments and the result of a call of flash_write.
fwvars == <<fw_addr, fw_size, fw_data, fw_ret, hw_calls>>

vars == <<newMain, directBoot, mem, pc, caller, j, size, line, rx, out, ops, validated,
          cut, corrupted, recvd, nread, fw_addr, fw_size, fw_data, fw_ret, hw_calls>>

\* -------------------------------------------------------- initial regions
\* The payload of the regions the model starts from: bytes 1, 2, ...
InitPayload == [i \in 1..MaxPayload |-> i]

MkRegion(h, payload) ==
    [i \in Offsets |->
        IF i < HeaderSize THEN HeaderBytes(h)[i + 1] ELSE payload[i - HeaderSize + 1]]

ErasedRegion == [i \in Offsets |-> ERASED]

\* Header sizes of the initial regions: 0, 1 .. MaxPayload + 1, capacity + 1.
InitSizes ==
    {ToU32(n) : n \in 0..(MaxPayload + 1)} \cup {ToU32(APP_MAX_SIZE - HeaderSize + 1)}

\* The first n bytes of the initial payload area (erased behind the window).
InitWindow(n) == [i \in 1..n |-> IF i <= MaxPayload THEN InitPayload[i] ELSE ERASED]

\* Stored checksums: the right one, the one of one byte less, all ones.
InitCrcs(sz) ==
    LET n == IF HeaderSizeBad(sz) THEN MaxPayload ELSE U32Nat(sz)
    IN  {crc32(InitWindow(n)), crc32(InitWindow(n - 1)), U32Ones}

\* A header with field values f.
MkHeader(mg, sz, c) == [magic |-> mg, size |-> sz, crc32 |-> c, version |-> ToU32(1)]

\* The regions the model starts from: erased; right magic with every size
\* and checksum above; an image valid but for one bit of its magic.
InitRegions ==
    {ErasedRegion}
    \cup UNION {{MkRegion(MkHeader(BOOT_MAGIC, sz, c), InitPayload) : c \in InitCrcs(sz)} :
                    sz \in InitSizes}
    \cup {MkRegion(MkHeader(ToU32(1381384781), ToU32(1), crc32(InitWindow(1))),
                   InitPayload)}

\* ------------------------------------------------------------ main: start
\* uart_init, print_banner and the BOOT? prompt.
BootOut == print_banner \o <<"BOOT?">>

\* The builds: src/main.c, which never reads the flag and stands here with
\* the flag unset, and the later main.c with the flag unset and set.
Init ==
    /\ newMain \in BOOLEAN
    /\ directBoot \in (IF newMain THEN BOOLEAN ELSE {FALSE})
    /\ mem \in InitRegions
    /\ pc = "prompt"
    /\ caller = "none"
    /\ j = 0
    /\ size = U32Zero
    /\ line = <<>>
    /\ rx = -1
    /\ out = BootOut
    /\ ops = <<>>
    /\ validated = FALSE
    /\ cut = -1
    /\ corrupted = 0
    /\ recvd = <<>>
    /\ nread = 0
    /\ fw_addr = U32Zero
    /\ fw_size = U32Zero
    /\ fw_data = 0
    /\ fw_ret = 0
    /\ hw_calls = 0

\* jump_to_app: its output (APP_HANDOFF in the later main.c, whatever the flag).
jump_to_app ==
    IF newMain THEN <<"Jumping to application...", "APP_HANDOFF">>
    ELSE <<"Jumping to application...">>

\* ------------------------------------------------------------ uart_update
\* Entry of uart_update from the loop `from`, after `pre` was emitted.
EnterUpdate(from, pre) ==
    /\ pc' = "cmd"
    /\ caller' = from
    /\ j' = 0
    /\ size' = U32Zero
    /\ line' = <<>>
    /\ out' = pre \o <<"OK">>
    /\ ops' = <<>>
    /\ corrupted' = 0
    /\ recvd' = <<>>
    /\ nread' = 0
    /\ UNCHANGED <<newMain, directBoot, mem, validated, cut, fwvars>>

\* Faulty variant, for sensitivity analysis: every return lands in the loop of the boot prompt.
Return_ToPrompt(msg) ==
    /\ pc' = "prompt"
    /\ caller' = "none"
    /\ j' = 0
    /\ size' = U32Zero
    /\ line' = <<>>
    /\ out' = Append(out, msg)
    /\ nread' = 0

\* Faulty variant, for sensitivity analysis: a failed erase is reported and tried again.
Return_RetryErase(msg) ==
    IF msg = "ERR: ERASE"
    THEN /\ pc' = "erase"
         /\ out' = Append(out, msg)
         /\ UNCHANGED <<caller, j, size, line, nread>>
    ELSE /\ pc' = caller
         /\ caller' = "none"
         /\ j' = 0
         /\ size' = U32Zero
         /\ line' = <<>>
         /\ out' = Append(out, msg)
         /\ nread' = 0

\* Faulty variant, for sensitivity analysis: every return falls through to the recovery loop.
Return_ToRecovery(msg) ==
    /\ pc' = "recovery"
    /\ caller' = "none"
    /\ j' = 0
    /\ size' = U32Zero
    /\ line' = <<>>
    /\ out' = Append(out, msg)
    /\ nread' = 0

\* Faulty variant, for sensitivity analysis: after its ERR: line the session waits for the
\* command again instead of returning.
Return_Restart(msg) ==
    /\ pc' = "cmd"
    /\ j' = 0
    /\ size' = U32Zero
    /\ line' = <<>>
    /\ out' = Append(out, msg)
    /\ nread' = 0
    /\ UNCHANGED caller

\* uart_puts(msg); return;  -- back in the caller's loop, blocked on uart_getc.
Return(msg) ==
    /\ pc' = caller
    /\ caller' = "none"
    /\ j' = 0
    /\ size' = U32Zero
    /\ line' = <<>>
    /\ out' = Append(out, msg)
    /\ nread' = 0

\* Faulty variant, for sensitivity analysis: the command is compared without regard to case.
CmdMatches_IgnoreCase(b, k) == b = cmd[k + 1] \/ b = cmd[k + 1] + 32

\* The comparison of the command loop.
CmdMatches(b, k) == b = cmd[k + 1]

\* One pass of the "SEND " loop.
CmdByte(b) ==
    /\ pc = "cmd"
    /\ rx' = b
    /\ IF CmdMatches(b, j)
       THEN /\ pc' = IF j + 1 = Len(cmd) THEN "size" ELSE "cmd"
            /\ j' = IF j + 1 = Len(cmd) THEN 0 ELSE j + 1
            /\ nread' = nread + 1
            /\ UNCHANGED <<caller, size, line, out>>
       ELSE Return("ERR: CMD")
    /\ UNCHANGED <<newMain, directBoot, mem, ops, validated, cut, corrupted, recvd, fwvars>>

IsDigit(b) == b >= Digit0 /\ b <= Digit9

\* Faulty variant, for sensitivity analysis: the size test without its upper bound.
DeclaredSizeBad_ZeroOnly(sz) == sz = U32Zero

\* Faulty variant, for sensitivity analysis: the size test leaves no room for the header.
DeclaredSizeBad_NoHeaderRoom(sz) == sz = U32Zero \/ U32Gt(sz, ToU32(APP_MAX_SIZE))

\* The size test of uart_update.
DeclaredSizeBad(sz) == sz = U32Zero \/ U32Gt(sz, PayloadCapacity)

\* One pass of the size loop; on the terminator, the size test.
SizeByte(b) ==
    /\ pc = "size"
    /\ rx' = b
    /\ IF b = CR \/ b = LF
       THEN /\ SizeModelled(size)
            /\ IF DeclaredSizeBad(size)
               THEN Return("ERR: SIZE")
               ELSE /\ pc' = "erase"
                    /\ out' = Append(out, "ERASING...")
                    /\ line' = Append(line, b)
                    /\ nread' = nread + 1
                    /\ UNCHANGED <<caller, j, size>>
       ELSE /\ Append(line, b) \in LinePrefixes
            /\ line' = Append(line, b)
            /\ size' = IF IsDigit(b) THEN U32Mul10Add(size, b - Digit0) ELSE size
            /\ nread' = nread + 1
            /\ UNCHANGED <<pc, caller, j, out>>
    /\ UNCHANGED <<newMain, directBoot, mem, ops, validated, cut, corrupted, recvd, fwvars>>

\* flash_erase_app returned 0: READY, then the receive loop.
EraseOk ==
    /\ pc = "erase"
    /\ mem' = flash_erase_app(mem)
    /\ ops' = Append(ops, "erase")
    /\ validated' = FALSE
    /\ cut' = -1
    /\ pc' = "recv"
    /\ j' = 0
    /\ out' = Append(out, "READY")
    /\ UNCHANGED <<newMain, directBoot, caller, size, line, rx, corrupted, recvd, nread, fwvars>>

\* flash_erase_app returned -1, the platform having erased k bytes:
\* ERR: ERASE and return.
EraseFail(k) ==
    /\ pc = "erase"
    /\ mem' = ErasePrefix(mem, k)
    /\ ops' = Append(ops, "erase")
    /\ validated' = FALSE
    /\ cut' = -1
    /\ Return("ERR: ERASE")
    /\ UNCHANGED <<newMain, directBoot, rx, corrupted, recvd, fwvars>>

\* Faulty variant, for sensitivity analysis: the receive loop stops one byte early.
RecvDone_OneEarly(k, sz) == ~U32Gt(sz, ToU32(k + 1))

\* The receive loop ends when j < size fails.
RecvDone(k, sz) == ~U32Gt(sz, ToU32(k))

\* Faulty variant, for sensitivity analysis: a line feed ends the payload instead of being
\* stored.
PayloadByte_LineEnds(b, wire) ==
    /\ pc = "recv"
    /\ wire = "bad" => corrupted = 0
    /\ rx' = b
    /\ mem' = IF b = LF THEN mem ELSE [mem EXCEPT ![HeaderSize + j] = b]
    /\ ops' = Append(ops, "payload")
    /\ validated' = FALSE
    /\ corrupted' = IF wire = "bad" THEN corrupted + 1 ELSE corrupted
    /\ j' = j + 1
    /\ recvd' = Append(recvd, b)
    /\ nread' = nread + 1
    /\ pc' = IF b = LF \/ RecvDone(j + 1, size) THEN "finalize" ELSE "recv"
    /\ UNCHANGED <<newMain, directBoot, caller, size, line, out, cut, fwvars>>

\* Faulty variant, for sensitivity analysis: a line feed that follows a size line ended by a
\* carriage return is taken as part of the terminator and dropped.
PayloadByte_SkipsLineFeed(b, wire) ==
    /\ pc = "recv"
    /\ wire = "bad" => corrupted = 0
    /\ rx' = b
    /\ nread' = nread + 1
    /\ IF j = 0 /\ b = LF /\ rx = CR
       THEN UNCHANGED <<mem, ops, j, recvd, pc, corrupted, validated>>
       ELSE /\ mem' = [mem EXCEPT ![HeaderSize + j] = b]
            /\ ops' = Append(ops, "payload")
            /\ validated' = FALSE
            /\ corrupted' = IF wire = "bad" THEN corrupted + 1 ELSE corrupted
            /\ j' = j + 1
            /\ recvd' = Append(recvd, b)
            /\ pc' = IF RecvDone(j + 1, size) THEN "finalize" ELSE "recv"
    /\ UNCHANGED <<newMain, directBoot, caller, size, line, out, cut, fwvars>>

\* dest[j] = (uint8_t)uart_getc();  wire tells whether b is the byte the
\* host meant to send.
PayloadByte(b, wire) ==
    /\ pc = "recv"
    /\ wire = "bad" => corrupted = 0
    /\ rx' = b
    /\ mem' = [mem EXCEPT ![HeaderSize + j] = b]
    /\ ops' = Append(ops, "payload")
    /\ validated' = FALSE
    /\ corrupted' = IF wire = "bad" THEN corrupted + 1 ELSE corrupted
    /\ j' = j + 1
    /\ recvd' = Append(recvd, b)
    /\ nread' = nread + 1
    /\ pc' = IF RecvDone(j + 1, size) THEN "finalize" ELSE "recv"
    /\ UNCHANGED <<newMain, directBoot, caller, size, line, out, cut, fwvars>>

\* Faulty variant, for sensitivity analysis: the checksum is taken over the whole modelled payload
\* area instead of over size bytes.
NewHeader_CrcOfWindow ==
    [magic |-> BOOT_MAGIC, size |-> size,
     crc32 |-> crc32(Payload(mem, MaxPayload)), version |-> ToU32(1)]

\* Faulty variant, for sensitivity analysis: the checksum is taken when the header is prepared,
\* before any payload byte is received.
NewHeader_CrcBeforeReceive ==
    [magic |-> BOOT_MAGIC, size |-> size, crc32 |-> crc32(<<>>), version |-> ToU32(1)]

\* The header uart_update builds.
NewHeader ==
    [magic |-> BOOT_MAGIC, size |-> size,
     crc32 |-> crc32(Payload(mem, U32Nat(size))), version |-> ToU32(1)]

\* Faulty variant, for sensitivity analysis: the handoff is taken in every build.
AfterCommit_AlwaysJump ==
    /\ pc' = "app"
    /\ out' = out \o <<"CRC?", "OK", "REBOOT">> \o jump_to_app

\* Faulty variant, for sensitivity analysis: the reset is taken in every build.
AfterCommit_AlwaysReset ==
    /\ pc' = "reset"
    /\ out' = out \o <<"CRC?", "OK", "REBOOT">>

\* Faulty variant, for sensitivity analysis: OK is emitted before CRC?.
AfterCommit_OkFirst ==
    IF newMain /\ directBoot
    THEN /\ pc' = "app"
         /\ out' = out \o <<"OK", "CRC?", "REBOOT">> \o jump_to_app
    ELSE /\ pc' = "reset"
         /\ out' = out \o <<"OK", "CRC?", "REBOOT">>

\* What follows the three result lines: the handoff under
\* #if PLATFORM_DIRECT_BOOT_AFTER_UPDATE of the later main.c, the reset otherwise.
AfterCommit ==
    IF newMain /\ directBoot
    THEN /\ pc' = "app"
         /\ out' = out \o <<"CRC?", "OK", "REBOOT">> \o jump_to_app
    ELSE /\ pc' = "reset"
         /\ out' = out \o <<"CRC?", "OK", "REBOOT">>

\* Faulty variant, for sensitivity analysis: the receive loop gives up waiting and the session
\* finalizes with the bytes it has.
FinalizeOk_OnTimeout ==
    /\ pc \in {"recv", "finalize"}
    /\ mem' = flash_write_header(mem, NewHeader)
    /\ ops' = Append(ops, "header")
    /\ validated' = FALSE
    /\ AfterCommit
    /\ UNCHANGED <<newMain, directBoot, caller, j, size, line, rx, cut, corrupted, recvd, nread, fwvars>>

\* Faulty variant, for sensitivity analysis: the session runs the validator on the stored
\* header before it hands off or resets.
FinalizeOk_Revalidate ==
    /\ pc = "finalize"
    /\ mem' = flash_write_header(mem, NewHeader)
    /\ ops' = Append(ops, "header")
    /\ validated' = (validate_app(mem').ret = 0)
    /\ AfterCommit
    /\ UNCHANGED <<newMain, directBoot, caller, j, size, line, rx, cut, corrupted, recvd, nread, fwvars>>

\* Faulty variant, for sensitivity analysis: the test of flash_write_header's result is inverted.
FinalizeOk_InvertedTest ==
    /\ pc = "finalize"
    /\ mem' = flash_write_header(mem, NewHeader)
    /\ ops' = Append(ops, "header")
    /\ validated' = FALSE
    /\ Return("ERR: HEADER")
    /\ UNCHANGED <<newMain, directBoot, rx, cut, corrupted, recvd, fwvars>>

\* flash_write_header returned 0.
FinalizeOk ==
    /\ pc = "finalize"
    /\ \E header \in {NewHeader} : mem' = flash_write_header(mem, header)
    /\ ops' = Append(ops, "header")
    /\ validated' = FALSE
    /\ AfterCommit
    /\ UNCHANGED <<newMain, directBoot, caller, j, size, line, rx, cut, corrupted, recvd, nread, fwvars>>

\* Faulty variant, for sensitivity analysis: the result of flash_write_header is ignored.
FinalizeFail_Ignored(k) ==
    /\ pc = "finalize"
    /\ mem' = platform_flash_write(mem, 0, SubSeq(HeaderBytes(NewHeader), 1, k))
    /\ ops' = Append(ops, "header")
    /\ validated' = FALSE
    /\ AfterCommit
    /\ UNCHANGED <<newMain, directBoot, caller, j, size, line, rx, cut, corrupted, recvd, nread, fwvars>>

\* flash_write_header returned -1, the platform having stored the first k
\* header bytes: ERR: HEADER and return.
FinalizeFail(k) ==
    /\ pc = "finalize"
    /\ \E header \in {NewHeader} :
          mem' = platform_flash_write(mem, 0, SubSeq(HeaderBytes(header), 1, k))
    /\ ops' = Append(ops, "header")
    /\ validated' = FALSE
    /\ Return("ERR: HEADER")
    /\ UNCHANGED <<newMain, directBoot, rx, cut, corrupted, recvd, fwvars>>

\* ------------------------------------------------------------------- main
\* if (validate_app() == 0) jump_to_app(); else the recovery message.
ValidateAndBoot(pre) ==
    LET v == validate_app(mem)
    IN  /\ pc' = IF v.ret = 0 THEN "app" ELSE "recovery"
        /\ validated' = (v.ret = 0)
        /\ ops' = <<>>
        /\ corrupted' = 0
        /\ out' = IF v.ret = 0 THEN pre \o jump_to_app
                  ELSE pre \o v.out \o <<MsgRecovery>>
        /\ recvd' = <<>>
        /\ nread' = 0
        /\ UNCHANGED <<newMain, directBoot, mem, caller, j, size, line, cut, fwvars>>

\* Faulty variant, for sensitivity analysis: only the lower-case symbol enters the update.
IsUpdateChoice_LowerOnly(b) == b = LowerU

\* Faulty variant, for sensitivity analysis: any symbol enters the update.
IsUpdateChoice_AnyKey(b) == TRUE

\* The test of main's first loop.
IsUpdateChoice(b) == b = LowerU \/ b = UpperU

\* One pass of the loop after BOOT?.
Choice(b) ==
    /\ pc = "prompt"
    /\ rx' = b
    /\ IF IsUpdateChoice(b)
       THEN EnterUpdate("prompt", <<MsgEcho>>)
       ELSE ValidateAndBoot(<<MsgEcho>>)

\* Faulty variant, for sensitivity analysis: the recovery loop tests for the upper-case symbol.
IsRecoveryUpdate_UpperOnly(b) == b = UpperU

\* Faulty variant, for sensitivity analysis: the recovery loop accepts both cases, as the
\* loop of the boot prompt does.
IsRecoveryUpdate_AnyCase(b) == b = LowerU \/ b = UpperU

\* The test of the recovery loop.
IsRecoveryUpdate(b) == b = LowerU

\* One pass of the recovery loop.
RecoveryByte(b) ==
    /\ pc = "recovery"
    /\ rx' = b
    /\ IF IsRecoveryUpdate(b)
       THEN EnterUpdate("recovery", <<>>)
       ELSE /\ out' = <<>>
            /\ ops' = <<>>
            /\ corrupted' = 0
            /\ recvd' = <<>>
            /\ nread' = 0
            /\ UNCHANGED <<newMain, directBoot, mem, pc, caller, j, size, line, validated, cut,
                           fwvars>>

\* ------------------------------------------------------------------ resets
\* The controller after a reset: main has run up to the first uart_getc.
Boot ==
    /\ pc' = "prompt"
    /\ caller' = "none"
    /\ j' = 0
    /\ size' = U32Zero
    /\ line' = <<>>
    /\ rx' = -1
    /\ out' = BootOut
    /\ ops' = <<>>
    /\ validated' = FALSE
    /\ corrupted' = 0
    /\ recvd' = <<>>
    /\ nread' = 0
    /\ UNCHANGED <<newMain, directBoot, fwvars>>

\* Faulty variant, for sensitivity analysis: platform_reset returns and the session returns
\* to the loop that started it.
Reset_Returns ==
    IF pc = "reset"
    THEN /\ pc' = caller
         /\ caller' = "none"
         /\ j' = 0
         /\ size' = U32Zero
         /\ line' = <<>>
         /\ UNCHANGED <<newMain, directBoot, mem, rx, out, ops, validated, cut, corrupted, recvd, nread,
                        fwvars>>
    ELSE /\ cut' = IF pc \in {"recv", "finalize"} THEN 0 ELSE cut
         /\ UNCHANGED mem
         /\ Boot

\* A system reset (platform_reset taking effect, or power loss) at any wait.
Reset ==
    /\ cut' = IF pc \in {"recv", "finalize"} THEN 0 ELSE cut
    /\ UNCHANGED mem
    /\ Boot

\* A reset during flash_write_header, after k of its 16 bytes were stored.
HeaderCut(k) ==
    /\ pc = "finalize"
    /\ mem' = platform_flash_write(mem, 0, SubSeq(HeaderBytes(NewHeader), 1, k))
    /\ cut' = k
    /\ Boot

Next ==
    \/ \E b \in PromptBytes : Choice(b)
    \/ \E b \in CmdBytes : CmdByte(b)
    \/ \E b \in SizeBytes : SizeByte(b)
    \/ EraseOk
    \/ \E k \in EraseFailPrefixes : EraseFail(k)
    \/ \E b \in DataBytes, wire \in {"good", "bad"} : PayloadByte(b, wire)
    \/ FinalizeOk
    \/ \E k \in HeaderFailPrefixes : FinalizeFail(k)
    \/ \E b \in PromptBytes : RecoveryByte(b)
    \/ Reset
    \/ \E k \in 1..(HeaderSize - 1) : HeaderCut(k)

Spec == Init /\ [][Next]_vars

\* ------------------------------------------------- validate_app on its own
\* Contents the application region may hold at power-on: every combination
\* of the magics, sizes, payloads and stored checksums below, and the erased
\* region.
UnitBytes == {0, 1, ERASED}
UnitPayloads == [1..MaxPayload -> UnitBytes]

\* The right magic, the magic with one bit flipped, and the erased word.
UnitMagics == {BOOT_MAGIC, ToU32(1381384781), U32Ones}

\* 0, 1 .. MaxPayload, capacity + 1 and 0xFFFFFFFF.
UnitSizes ==
    {ToU32(n) : n \in 0..MaxPayload}
    \cup {ToU32(APP_MAX_SIZE - HeaderSize + 1), U32Ones}

\* The checksums of every prefix of the payload, and the erased word.
UnitCrcs(p) == {crc32(SubSeq(p, 1, k)) : k \in 0..MaxPayload} \cup {U32Ones}

UnitRegions ==
    {ErasedRegion}
    \cup UNION {{MkRegion(MkHeader(mg, sz, c), p) :
                    mg \in UnitMagics, sz \in UnitSizes, c \in UnitCrcs(p)} :
                 p \in UnitPayloads}

\* The controller at its first uart_getc, no session begun, flash_write not in use.
AtPrompt ==
    /\ caller = "none"
    /\ j = 0
    /\ size = U32Zero
    /\ line = <<>>
    /\ rx = -1
    /\ ops = <<>>
    /\ validated = FALSE
    /\ cut = -1
    /\ corrupted = 0
    /\ recvd = <<>>
    /\ nread = 0

ValidateInit ==
    /\ newMain \in BOOLEAN
    /\ directBoot \in (IF newMain THEN BOOLEAN ELSE {FALSE})
    /\ mem \in UnitRegions
    /\ pc = "prompt"
    /\ out = BootOut
    /\ AtPrompt
    /\ fw_addr = U32Zero
    /\ fw_size = U32Zero
    /\ fw_data = 0
    /\ fw_ret = 0
    /\ hw_calls = 0

\* The boot decision on a symbol that is not an enter-update symbol:
\* validate_app runs on the region.
ValidateNext == \E b \in PromptBytes \ {LowerU, UpperU} : Choice(b)

ValidateSpec == ValidateInit /\ [][ValidateNext]_vars

\* --------------------------------------------------- flash_write on its own
\* Addresses handed to flash_write: 0, APP_BASE - 1, APP_BASE, APP_BASE + 1,
\* APP_BASE + 16, the limit - 1, the limit, the limit + 1, 0xFFFFFFF0, 0xFFFFFFFF.
FlashAddrs ==
    {U32Zero, <<32768, 65535>>, APP_BASE, <<32769, 1>>, <<32769, 16>>,
     <<32775, 65535>>, AppLimit, <<32776, 1>>, <<65535, 65520>>, U32Ones}

\* Sizes handed to flash_write: 0, 1, 16, APP_MAX_SIZE - 1, APP_MAX_SIZE,
\* APP_MAX_SIZE + 1, 0x7FFEFFFF, 0x7FFF0000, 0x7FFF0001, 0x80000000,
\* 0xFFFFFFF0, 0xFFFFFFFF.
FlashSizes ==
    {U32Zero, ToU32(1), ToU32(HeaderSize), ToU32(APP_MAX_SIZE - 1),
     ToU32(APP_MAX_SIZE), ToU32(APP_MAX_SIZE + 1), <<32766, 65535>>,
     <<32767, 0>>, <<32767, 1>>, <<32768, 0>>, <<65535, 65520>>, U32Ones}

\* The byte the data handed to flash_write is filled with.
FlashData == {90, 0}

\* What platform_flash_write may return: 0 on success, -1 on error.
HwResults == {0, -1}

\* Numbers of bytes a failing platform_flash_write may have stored.
WriteFailCounts == {U32Zero, ToU32(1)}

\* The smaller of two uint32_t values.
U32Min(a, b) == IF U32Leq(a, b) THEN a ELSE b

FlashInit ==
    /\ newMain = FALSE
    /\ directBoot = FALSE
    /\ mem = ErasedRegion
    /\ pc = "flash_write"
    /\ out = <<>>
    /\ AtPrompt
    /\ fw_addr \in FlashAddrs
    /\ fw_size \in FlashSizes
    /\ fw_data \in FlashData
    /\ fw_ret = 0
    /\ hw_calls = 0

\* Numbers of bytes the byte loop may have stored when it faults (besides
\* all of them, on the last store).
FaultCounts == {U32Zero, ToU32(1), ToU32(WinLen)}

\* One call flash_write(fw_addr, data, fw_size): a rejected call stores
\* nothing; an accepted one runs the byte loop of platform_flash_write, to its
\* end when the platform returns 0. When addr + size exceeds 2^32 the call is
\* accepted and the loop stores past the end of the address space, which is
\* undefined: the machine faults after some stores and flash_write never
\* returns (QEMU virt faults at the end of its RAM), or the call returns.
FlashWriteCall(hw) ==
    /\ pc = "flash_write"
    /\ LET r == flash_write(fw_addr, fw_size, hw)
       IN  /\ hw_calls' = r.calls
           /\ \/ /\ pc' = "returned"
                 /\ fw_ret' = r.ret
                 /\ IF r.calls = 0
                    THEN mem' = mem
                    ELSE IF hw = 0
                    THEN mem' = platform_flash_write_at(mem, fw_addr, fw_size, fw_data)
                    ELSE \E n \in WriteFailCounts :
                             mem' = platform_flash_write_at(mem, fw_addr,
                                                            U32Min(n, fw_size), fw_data)
              \/ /\ r.calls = 1
                 /\ U32Carry(fw_addr, fw_size)
                 /\ pc' = "fault"
                 /\ fw_ret' = fw_ret
                 /\ \E n \in FaultCounts \cup {fw_size} :
                        mem' = platform_flash_write_at(mem, fw_addr,
                                                       U32Min(n, fw_size), fw_data)
    /\ UNCHANGED <<newMain, directBoot, caller, j, size, line, rx, out, ops, validated,
                   cut, corrupted, recvd, nread, fw_addr, fw_size, fw_data>>

FlashNext == \E hw \in HwResults : FlashWriteCall(hw)

FlashSpec == FlashInit /\ [][FlashNext]_vars

\* ------------------------------ storage failures as the specification has them
\* Faulty variant, for sensitivity analysis: a failed erase has erased the
\* least a failing platform_flash_erase may have erased, nothing.
FailedEraseErased_Least ==
    CHOOSE k \in EraseFailPrefixes : \A other \in EraseFailPrefixes : k <= other

\* Bytes a failed erase has erased by the specification: it leaves the
\* region fully erased.
FailedEraseErased == WinLen

\* Header bytes a failed header write has stored by the specification, in
\* which the region becomes valid only by a header write that succeeds: none.
FailedWriteStored == 0

\* The bootloader over a platform whose failing storage calls do what the
\* specification says.
ContractNext ==
    \/ \E b \in PromptBytes : Choice(b)
    \/ \E b \in CmdBytes : CmdByte(b)
    \/ \E b \in SizeBytes : SizeByte(b)
    \/ EraseOk
    \/ EraseFail(FailedEraseErased)
    \/ \E b \in DataBytes, wire \in {"good", "bad"} : PayloadByte(b, wire)
    \/ FinalizeOk
    \/ FinalizeFail(FailedWriteStored)
    \/ \E b \in PromptBytes : RecoveryByte(b)
    \/ Reset
    \/ \E k \in 1..(HeaderSize - 1) : HeaderCut(k)

ContractSpec == Init /\ [][ContractNext]_vars

\* ------------------------------------------- sessions without power loss
\* The bootloader on the platform of the repository, whose storage calls
\* return 0 on every path, with a host that keeps sending bytes; no reset
\* other than platform_reset.
LiveRegions ==
    {ErasedRegion,
     MkRegion(MkHeader(BOOT_MAGIC, ToU32(1), crc32(InitWindow(1))), InitPayload)}

LiveInit == Init /\ mem \in LiveRegions

\* uart_update holds the processor.
InSession == pc \in {"cmd", "size", "erase", "recv", "finalize"}

\* uart_getc returns a byte to uart_update.
SessionByte ==
    \/ \E b \in CmdBytes : CmdByte(b)
    \/ \E b \in SizeBytes : SizeByte(b)
    \/ \E b \in DataBytes : PayloadByte(b, "good")

\* flash_erase_app or flash_write_header returns.
StorageReturns ==
    \/ EraseOk
    \/ FinalizeOk

\* platform_reset takes effect.
ResetTakesEffect == pc = "reset" /\ Reset

LiveNext ==
    \/ \E b \in PromptBytes : Choice(b)
    \/ \E b \in PromptBytes : RecoveryByte(b)
    \/ SessionByte
    \/ StorageReturns
    \/ ResetTakesEffect

LiveSpec ==
    /\ LiveInit
    /\ [][LiveNext]_vars
    /\ WF_vars(SessionByte)
    /\ WF_vars(StorageReturns)

\* ================================================================== claims
Range(s) == {s[i] : i \in 1..Len(s)}
Last(s) == s[Len(s)]

\* The validity predicate of the data model: right magic, size within
\* 1 .. capacity, stored checksum equal to the checksum of `size` payload bytes.
ValidImage(m) ==
    LET h == fw_header_t(m)
    IN  /\ h.magic = BOOT_MAGIC
        /\ h.size # U32Zero
        /\ U32Leq(h.size, PayloadCapacity)
        /\ h.crc32 = crc32([i \in 1..U32Nat(h.size) |-> PayloadAt(m, i - 1)])

\* A step that is a reset followed by the start of main.
BootStep == pc' = "prompt" /\ rx' = -1 /\ out' = BootOut

\* The session's storage log once all payload bytes are in.
FullPayloadLog == <<"erase">> \o [i \in 1..U32Nat(size) |-> "payload"]

\* C1 (as stated): in every build, whenever the application has received
\* control, the jump followed a validate_app that returned 0, with no storage
\* write in between.
C1_JumpOnlyAfterValidate == pc = "app" => validated

\* C1 (amended): the application receives control either right after a
\* validate_app that returned 0 on the region as it is at the jump, with no
\* storage operation in between, or, in the direct-boot build only, from a
\* committed update session right after its header write, without validate_app.
C1_JumpGatedOrDirect ==
    pc = "app" =>
        IF validated
        THEN ops = <<>> /\ validate_app(mem).ret = 0
        ELSE directBoot /\ ops = Append(FullPayloadLog, "header")

\* C1 witness: an image installed by an update has been validated and entered
\* in a later boot of the build without direct boot.
C1_Witness ==
    pc = "app" /\ validated /\ ~directBoot /\ PayloadAt(mem, 0) = LowerU

\* C2: after a reset cut the header write of an update when 1 to 15 of its
\* bytes were stored, validate_app fails on the region.
C2_PartialHeaderInvalid == cut \in 1..(HeaderSize - 1) => validate_app(mem).ret = -1

\* C3: the storage operations of an update session occur in the order erase,
\* payload bytes, header; the header is written only after all `size` payload
\* bytes are stored and is the last storage write; the region changes only by
\* these operations.
C3_StorageOrder ==
    [][ /\ (ops' # ops /\ ops' # <<>>) =>
            /\ ops' = Append(ops, Last(ops'))
            /\ Last(ops') = "erase" => ops = <<>>
            /\ Last(ops') = "payload" =>
                  /\ Len(ops) <= U32Nat(size)
                  /\ ops = SubSeq(FullPayloadLog, 1, Len(ops))
                  /\ ops # <<>>
            /\ Last(ops') = "header" => ops = FullPayloadLog
        /\ mem' # mem =>
            \/ Len(ops') = Len(ops) + 1
            \/ pc = "finalize" /\ ops = FullPayloadLog /\ BootStep
      ]_vars

\* C3 witness: a session has erased, stored two payload bytes and written the header.
C3_Witness ==
    /\ pc \in {"app", "reset"}
    /\ size = ToU32(2)
    /\ ops = <<"erase", "payload", "payload", "header">>

\* C4: while the last session stands cut by a reset between its erase and its
\* header write, validate_app fails on the magic test and the application
\* never has control; the boot decision of such a boot ends in the recovery loop.
C4_CutBeforeHeader ==
    [][ /\ cut' = 0 => pc' # "app" /\ validate_app(mem').out = <<MsgBadMagic>>
        /\ (cut = 0 /\ pc = "prompt" /\ rx' \in PromptBytes /\ ~IsUpdateChoice(rx')) =>
              /\ pc' = "recovery"
              /\ out' = <<MsgEcho, MsgBadMagic, MsgRecovery>>
      ]_vars

\* C4 witness: a session was cut in the middle of its payload and the next
\* boot has ended in the recovery loop.
C4_Witness ==
    /\ cut = 0
    /\ pc = "recovery"
    /\ PayloadAt(mem, 0) \in DataBytes
    /\ PayloadAt(mem, 1) = ERASED

\* C5: validate_app returns 0 exactly on the regions that satisfy the
\* validity predicate: after a successful validation the region is valid, and
\* right after a failed one it is not.
C5_ValidateIffValid ==
    /\ validated => ValidImage(mem)
    /\ (pc = "recovery" /\ Len(out) = 3 /\ out[3] = MsgRecovery) => ~ValidImage(mem)

\* C5 witness: validation has failed on a region with the right magic and a
\* size in range, on the checksum alone.
C5_Witness ==
    /\ pc = "recovery"
    /\ out = <<MsgEcho, MsgBadCrc, MsgRecovery>>
    /\ fw_header_t(mem).size = ToU32(1)

\* C6: a session whose received payload differs in one byte from what the
\* host sent emits a checksum-fail indication, writes no header and never
\* hands control to the payload.
C6_CorruptedRejected ==
    (corrupted = 1 /\ pc \notin {"recv", "finalize"}) =>
        /\ "BL_EVT:APP_CRC_FAIL" \in Range(out)
        /\ "header" \notin Range(ops)
        /\ pc # "app"

\* The digits of a size field, without leading zeros.
RECURSIVE StripZeros(_)
StripZeros(d) ==
    IF d # <<>> /\ Head(d) = Digit0 THEN StripZeros(Tail(d)) ELSE d

SizeDigits(l) == StripZeros(SelectSeq(l, IsDigit))

\* The number a string of at most six digits denotes.
RECURSIVE DecValue(_)
DecValue(d) ==
    IF d = <<>> THEN 0 ELSE 10 * DecValue(SubSeq(d, 1, Len(d) - 1)) + (Last(d) - Digit0)

\* The decimal value of the size field is 0 or exceeds the payload capacity.
DeclaredValueBad(l) ==
    LET d == SizeDigits(l)
    IN  \/ d = <<>>
        \/ Len(d) > 6
        \/ (Len(d) <= 6 /\ DecValue(d) > APP_MAX_SIZE - HeaderSize)

\* The value of the size field in 32-bit arithmetic, digit by digit.
RECURSIVE WrappedValue(_)
WrappedValue(d) ==
    IF d = <<>> THEN U32Zero
    ELSE U32Mul10Add(WrappedValue(SubSeq(d, 1, Len(d) - 1)), Last(d) - Digit0)

\* The outcome "ERR: SIZE, nothing erased, nothing written, back in the caller".
SizeRejected ==
    /\ pc' = caller
    /\ out' = Append(out, "ERR: SIZE")
    /\ ops' = <<>>
    /\ mem' = mem

\* C7 (as stated): every size line whose decimal value is 0 or greater than
\* the payload capacity, values of 2^32 or more included, is rejected with
\* ERR: SIZE before any erase, the region unchanged.
C7_BadDeclaredSizeRejected ==
    [][(pc = "size" /\ rx' \in {CR, LF} /\ DeclaredValueBad(line)) => SizeRejected]_vars

\* C7 (amended): every size line whose value taken mod 2^32 is 0 or greater
\* than the payload capacity is rejected with ERR: SIZE before any erase, the
\* region unchanged; a declared value of 2^32 or more is judged by its
\* residue mod 2^32.
C7_BadWrappedSizeRejected ==
    [][(/\ pc = "size"
        /\ rx' \in {CR, LF}
        /\ LET w == WrappedValue(SelectSeq(line, IsDigit))
           IN  w = U32Zero \/ U32Gt(w, PayloadCapacity)) => SizeRejected]_vars

\* C7 witness: a session has rejected a size and is back in the recovery
\* loop, nothing erased.
C7_Witness ==
    /\ pc = "recovery"
    /\ out = <<"OK", "ERR: SIZE">>
    /\ ops = <<>>
    /\ rx = LF

\* C8: a byte that differs from the command token ends the session at once
\* with ERR: CMD, back in the caller, nothing erased or written.
C8_BadCommandAborts ==
    [][(pc = "cmd" /\ rx' \in CmdBytes /\ rx' # cmd[j + 1]) =>
          /\ pc' = caller
          /\ out' = Append(out, "ERR: CMD")
          /\ ops = <<>> /\ ops' = <<>>
          /\ mem' = mem
      ]_vars

\* C8 witness: a session started at the boot prompt has ended with ERR: CMD
\* on an 's' and the controller is back at the prompt.
C8_Witness ==
    /\ pc = "prompt"
    /\ out = <<MsgEcho, "OK", "ERR: CMD">>
    /\ rx = 115

\* The controller has entered the recovery loop in this boot.
InRecovery == pc = "recovery" \/ caller = "recovery"

\* C9 (as stated): in every build, no session started from the recovery loop
\* ends with the application in control.
C9_NoJumpFromRecovery == ~(pc = "app" /\ caller = "recovery")

\* C9 (amended): once in the recovery loop the controller stays in it or in a
\* session started from it until a reset, except that in the direct-boot
\* build a session that commits hands control to the application right after
\* its header write.
C9_RecoveryLeftByResetOrDirect ==
    [][InRecovery =>
          \/ BootStep
          \/ /\ InRecovery'
             /\ pc' = "app" =>
                   (pc = "app" \/ (directBoot /\ pc = "finalize" /\ Last(ops') = "header"))
      ]_vars

\* C9 witness: a session started from the recovery loop has committed in the
\* build without direct boot and waits for the reset.
C9_Witness == pc = "reset" /\ caller = "recovery" /\ ~directBoot

\* C10: with the region fully erased, a first symbol other than 'u' / 'U'
\* makes validation fail on the magic, the recovery message appear and the
\* recovery loop begin; the application gets control only over a valid region.
C10_ErasedRegionRecovers ==
    [][ /\ (/\ pc = "prompt" /\ rx = -1 /\ mem = ErasedRegion
            /\ rx' \in PromptBytes /\ ~(rx' \in {LowerU, UpperU})) =>
              /\ pc' = "recovery"
              /\ out' = <<MsgEcho, MsgBadMagic, MsgRecovery>>
              /\ mem' = mem
        /\ (pc' = "app" /\ pc # "app") => ValidImage(mem')
      ]_vars

\* C10 witness: the recovery loop has been entered over the erased region.
C10_Witness ==
    /\ pc = "recovery"
    /\ mem = ErasedRegion
    /\ rx = CR
    /\ out = <<MsgEcho, MsgBadMagic, MsgRecovery>>

\* A step of the loop after BOOT?: a symbol was read at the prompt (a reset
\* leaves rx at -1).
PromptRead == pc = "prompt" /\ rx' # -1

\* C11: at the boot prompt the controller decides on the one symbol it read:
\* on 'u' or 'U' the update session begins (OK is emitted, the command loop
\* waits, nothing validated, the region untouched); on every other symbol,
\* CR and LF included, validate-and-boot runs and no update session begins.
C11_PromptDecision ==
    [][PromptRead =>
          IF rx' \in {LowerU, UpperU}
          THEN /\ pc' = "cmd"
               /\ caller' = "prompt"
               /\ out' = <<MsgEcho, "OK">>
               /\ validated' = FALSE
               /\ mem' = mem
          ELSE /\ pc' = IF validate_app(mem).ret = 0 THEN "app" ELSE "recovery"
               /\ caller' = "none"
               /\ "OK" \notin Range(out')
               /\ out'[1] = MsgEcho
               /\ Last(out') \in {MsgRecovery, Last(jump_to_app)}
               /\ ops' = <<>>
               /\ mem' = mem
      ]_vars

\* C11 witness: the upper-case symbol was read at the first prompt of a boot
\* and the update session waits for its command.
C11_Witness == pc = "cmd" /\ caller = "prompt" /\ rx = UpperU /\ j = 0

\* The step on which a session commits: the header write returned success.
CommitStep == pc = "finalize" /\ pc' \in {"app", "reset"}

\* What a session started at the boot prompt has emitted when it commits.
T1Lines == <<MsgEcho, "OK", "ERASING...", "READY", "CRC?", "OK", "REBOOT">>

\* C12 (as stated): a session started at the boot prompt that commits has
\* emitted READY, then CRC? / OK, and ends with the new payload in control,
\* no further symbol read.
C12_T1HandsOff ==
    [][(CommitStep /\ caller = "prompt") =>
          /\ pc' = "app"
          /\ rx' = rx
          /\ SubSeq(out', 1, Len(T1Lines)) = T1Lines
      ]_vars

\* C12 (amended): such a session has emitted READY, then CRC? / OK / REBOOT;
\* in the direct-boot build the payload then receives control with no further
\* symbol read; in the build without direct boot the controller resets instead,
\* the only step after that is the fresh boot, and the fresh boot leaves its
\* prompt only on a symbol from the host.
C12_T1HandoffByPolicy ==
    [][ /\ (CommitStep /\ caller = "prompt") =>
              /\ rx' = rx
              /\ IF directBoot
                 THEN pc' = "app" /\ out' = T1Lines \o jump_to_app
                 ELSE pc' = "reset" /\ out' = T1Lines
        /\ pc = "reset" => BootStep
        /\ (pc = "prompt" /\ rx = -1 /\ pc' # "prompt") => rx' \in PromptBytes
      ]_vars

\* C12 witness: in the direct-boot build a one-byte update started at the
\* boot prompt has ended with the payload in control.
C12_Witness ==
    /\ directBoot
    /\ pc = "app"
    /\ caller = "prompt"
    /\ out = T1Lines \o jump_to_app
    /\ recvd = <<LF>>

\* The session of this boot has committed: its header write, the last
\* storage operation, returned success.
Committed == pc \in {"app", "reset"} /\ ops # <<>> /\ Last(ops) = "header"

\* C13: once a session has committed, the region holds the header
\* {BOOT_MAGIC, declared size, checksum of the stored payload, version 1}
\* followed by exactly the payload bytes the session received, in order; the
\* declared size is the value of the size line; validate_app succeeds on it.
C13_CommittedImage ==
    Committed =>
        /\ size = WrappedValue(SelectSeq(line, IsDigit))
        /\ Len(recvd) = U32Nat(size)
        /\ fw_header_t(mem) =
              [magic |-> BOOT_MAGIC, size |-> size,
               crc32 |-> crc32(recvd), version |-> ToU32(1)]
        /\ \A i \in 1..Len(recvd) : mem[HeaderSize + i - 1] = recvd[i]
        /\ validate_app(mem) = [ret |-> 0, out |-> <<>>, scan |-> Len(recvd)]

\* C13 witness: a session has committed the one-byte payload 'u' over a
\* region whose second payload byte stays erased.
C13_Witness ==
    /\ Committed
    /\ recvd = <<LowerU>>
    /\ PayloadAt(mem, 1) = ERASED
    /\ pc = "reset"


\* The byte range [addr, addr + sz) is not entirely inside
\* [APP_BASE, APP_BASE + APP_MAX_SIZE), the sum taken without wrapping.
OutsideApp(addr, sz) ==
    \/ U32Lt(addr, APP_BASE)
    \/ U32Carry(addr, sz)
    \/ U32Gt(U32Add(addr, sz), AppLimit)

\* C14: once the call has returned or faulted, flash_write has returned -1
\* without a platform call whenever the range
\* is not entirely inside the application region, also when addr + size
\* exceeds 2^32; otherwise it makes one platform call.
C14_OutOfRangeRejected ==
    pc \in {"returned", "fault"} =>
        IF OutsideApp(fw_addr, fw_size)
        THEN fw_ret = -1 /\ hw_calls = 0
        ELSE hw_calls = 1

\* C15: on a region whose bytes are all 0xFF validate_app fails at the magic
\* test: it returns -1 with the invalid-magic line, crc32 not called, and a
\* boot decision over such a region prints that line and no other error.
C15_ErasedFailsOnMagic ==
    mem = ErasedRegion =>
        /\ validate_app(mem) = [ret |-> -1, out |-> <<MsgBadMagic>>, scan |-> -1]
        /\ ~validated
        /\ MsgRecovery \in Range(out) => out = <<MsgEcho, MsgBadMagic, MsgRecovery>>

\* C15 witness: platform_flash_erase has erased the region, a reset cut the
\* session before its first payload byte, and the next boot decision has
\* ended in the recovery loop on the magic error.
C15_Witness ==
    /\ cut = 0
    /\ mem = ErasedRegion
    /\ pc = "recovery"
    /\ out = <<MsgEcho, MsgBadMagic, MsgRecovery>>

\* C16: on every region with the right magic and a size that is 0 or
\* greater than APP_MAX_SIZE - sizeof(fw_header_t), validate_app fails with the
\* invalid-size line, whatever the stored checksum and the payload are.
C16_BadSizeRejected ==
    LET h == fw_header_t(mem)
    IN  (/\ h.magic = BOOT_MAGIC
         /\ (h.size = U32Zero \/ U32Gt(h.size, ToU32(APP_MAX_SIZE - HeaderSize)))) =>
            /\ validate_app(mem) = [ret |-> -1, out |-> <<MsgBadSize>>, scan |-> -1]
            /\ pc # "app"
            /\ pc = "recovery" => out = <<MsgEcho, MsgBadSize, MsgRecovery>>

\* C16 witness: a header with the right magic, size 0 and the checksum of
\* the empty payload has been rejected on its size.
C16_Witness ==
    /\ pc = "recovery"
    /\ out = <<MsgEcho, MsgBadSize, MsgRecovery>>
    /\ fw_header_t(mem).size = U32Zero
    /\ fw_header_t(mem).crc32 = crc32(<<>>)

\* C17: validate_app tests magic, then size, then checksum and stops at the
\* first failure: a wrong magic gives the magic error whatever size and
\* checksum are, a bad size with the right magic gives the size error
\* whatever the checksum is, and crc32 is called only when both tests have
\* passed, with a length within 1 .. capacity; one error line at most.
C17_ChecksInOrder ==
    LET h == fw_header_t(mem)
        v == validate_app(mem)
        sizeOk == h.size # U32Zero /\ U32Leq(h.size, ToU32(APP_MAX_SIZE - HeaderSize))
    IN  /\ h.magic # BOOT_MAGIC =>
              v = [ret |-> -1, out |-> <<MsgBadMagic>>, scan |-> -1]
        /\ (h.magic = BOOT_MAGIC /\ ~sizeOk) =>
              v = [ret |-> -1, out |-> <<MsgBadSize>>, scan |-> -1]
        /\ v.scan # -1 =>
              /\ h.magic = BOOT_MAGIC
              /\ sizeOk
              /\ v.scan = U32Nat(h.size)
              /\ v.scan \in 1..(APP_MAX_SIZE - HeaderSize)
        /\ Len(v.out) <= 1
        /\ pc = "recovery" => out = <<MsgEcho>> \o v.out \o <<MsgRecovery>>
        /\ pc = "app" => v.ret = 0 /\ v.scan # -1

\* C17 witness: a region with a wrong magic, a size beyond the capacity and
\* a wrong checksum has been rejected on its magic alone.
C17_Witness ==
    /\ pc = "recovery"
    /\ out = <<MsgEcho, MsgBadMagic, MsgRecovery>>
    /\ fw_header_t(mem).magic = ToU32(1381384781)
    /\ fw_header_t(mem).size = ToU32(APP_MAX_SIZE - HeaderSize + 1)
    /\ fw_header_t(mem).crc32 = U32Ones

\* The region m with payload byte i set to b.
WithPayloadByte(m, i, b) == [m EXCEPT ![HeaderSize + i] = b]

\* C18: on every region on which validate_app succeeds, changing any single
\* one of the first `size` payload bytes to any other value, the header left
\* as it is, makes validate_app fail with the checksum-mismatch line.
C18_PayloadByteChangeDetected ==
    validate_app(mem).ret = 0 =>
        \A i \in 0..(U32Nat(fw_header_t(mem).size) - 1) :
            \A b \in (0..255) \ {PayloadAt(mem, i)} :
                validate_app(WithPayloadByte(mem, i, b)) =
                    [ret |-> -1, out |-> <<MsgBadCrc>>,
                     scan |-> U32Nat(fw_header_t(mem).size)]

\* C18 witness: a valid two-byte image has been validated and entered.
C18_Witness ==
    /\ pc = "app"
    /\ validated
    /\ fw_header_t(mem).size = ToU32(2)
    /\ Payload(mem, 2) = <<0, ERASED>>

\* A step on which flash_erase_app reported failure: the erase was attempted
\* and the session did not go on to announce its receive loop with READY alone.
EraseFailStep ==
    /\ pc = "erase"
    /\ ops' = <<"erase">>
    /\ out' # Append(out, "READY")

\* What a failed erase leads to: ERR: ERASE, back in the caller, no payload
\* byte read, no header written.
EraseAborted ==
    /\ out' = Append(out, "ERR: ERASE")
    /\ pc' = caller
    /\ pc' \in {"prompt", "recovery"}
    /\ rx' = rx
    /\ recvd' = <<>>
    /\ ops' = <<"erase">>

StorageErrLines == {"ERR: ERASE", "ERR: HEADER"}
ErrLines == {"ERR: CMD", "ERR: SIZE"} \cup StorageErrLines

\* How often x occurs in the sequence s.
Count(s, x) == Cardinality({i \in 1..Len(s) : s[i] = x})

\* C20: a session calls flash_erase_app at most once and flash_write_header
\* at most once and emits at most one ERR: line; the step on which a storage
\* call fails emits its ERR: line and returns to the caller; after that line
\* there is no further storage call until another session begins.
C20_NoRetry ==
    [][ /\ Count(ops', "erase") <= 1
        /\ Count(ops', "header") <= 1
        /\ Cardinality({i \in 1..Len(out') : out'[i] \in ErrLines}) <= 1
        /\ (Len(out') = Len(out) + 1 /\ Last(out') \in StorageErrLines) =>
              /\ pc' = caller
              /\ pc' \in {"prompt", "recovery"}
              /\ ops' = Append(ops, IF Last(out') = "ERR: ERASE" THEN "erase" ELSE "header")
        /\ (out # <<>> /\ Last(out) \in StorageErrLines) =>
              /\ ops' \in {ops, <<>>}
              /\ mem' = mem
              /\ out' # out => (\A i \in 1..Len(out') : out'[i] \notin ErrLines)
      ]_vars

\* C20 witness: the header write of a one-byte update started from the
\* recovery loop has failed and the session is back in the loop.
C20_Witness ==
    /\ pc = "recovery"
    /\ out = <<"OK", "ERASING...", "READY", "ERR: HEADER">>
    /\ ops = <<"erase", "payload", "header">>

\* C21: every session started from the recovery loop that aborts with an
\* ERR: line returns to the loop; in every state of the loop the read of 'u'
\* is possible and begins a new session; every other symbol leaves the
\* controller in the loop, the region untouched.
C21_RecoveryReenters ==
    /\ [](pc = "recovery" => ENABLED RecoveryByte(LowerU))
    /\ [][ /\ (/\ caller = "recovery"
               /\ Len(out') = Len(out) + 1
               /\ Last(out') \in ErrLines) => (pc' = "recovery" /\ caller' = "none")
           /\ (pc = "recovery" /\ rx' = LowerU) =>
                 /\ pc' = "cmd"
                 /\ caller' = "recovery"
                 /\ out' = <<"OK">>
           /\ (pc = "recovery" /\ rx' \notin {-1, LowerU}) =>
                 /\ pc' = "recovery"
                 /\ mem' = mem
         ]_vars

\* C21 witness: a session started from the recovery loop has aborted on a
\* failed header write and the controller is in the loop again.
C21_Witness ==
    /\ pc = "recovery"
    /\ caller = "none"
    /\ Len(ops) = 4
    /\ out = <<"OK", "ERASING...", "READY", "ERR: HEADER">>

\* A step on which a session started at the boot prompt aborts with an ERR: line.
PromptAbortStep ==
    /\ caller = "prompt"
    /\ Len(out') = Len(out) + 1
    /\ Last(out') \in ErrLines

\* C22 (as stated): when a session started at the boot prompt has aborted,
\* the controller has emitted BOOT? again, after the ERR: line, and waits at
\* the prompt.
C22_AbortReprompts ==
    (/\ pc = "prompt"
     /\ \E i \in 1..Len(out) : out[i] \in ErrLines) => Last(out) = "BOOT?"

\* C22 (amended): when a session started at the boot prompt aborts, the
\* controller is back in the loop after BOOT? and waits for a new decision
\* symbol, the ERR: line being the last line emitted; BOOT? is emitted
\* only at the start of a boot.
C22_AbortReturnsToPrompt ==
    [][ /\ PromptAbortStep =>
              /\ pc' = "prompt"
              /\ caller' = "none"
              /\ out' = Append(out, Last(out'))
              /\ "BOOT?" \notin Range(out')
        /\ (out' # out /\ "BOOT?" \in Range(out')) => (BootStep /\ Last(out') = "BOOT?")
      ]_vars

\* C22 witness: a session started at the boot prompt has aborted on its size
\* and the controller waits at the prompt, no BOOT? emitted since.
C22_Witness ==
    /\ pc = "prompt"
    /\ out = <<MsgEcho, "OK", "ERR: SIZE">>
    /\ rx = CR

\* The places where the controller is blocked in uart_getc.
Waiting == {"prompt", "cmd", "size", "recv", "recovery"}

\* A step on which uart_getc returns a byte to the controller.
HostByte ==
    \/ \E b \in PromptBytes : Choice(b)
    \/ \E b \in CmdBytes : CmdByte(b)
    \/ \E b \in SizeBytes : SizeByte(b)
    \/ \E b \in DataBytes, wire \in {"good", "bad"} : PayloadByte(b, wire)
    \/ \E b \in PromptBytes : RecoveryByte(b)

\* A step the controller takes without a byte from the host: a storage
\* call returning, or platform_reset taking effect.
ControllerStep ==
    \/ EraseOk
    \/ \E k \in EraseFailPrefixes : EraseFail(k)
    \/ FinalizeOk
    \/ \E k \in HeaderFailPrefixes : FinalizeFail(k)
    \/ (pc = "reset" /\ Reset)

\* C23: while the controller waits for a serial byte, no step of its own is
\* possible, and every step taken from a waiting state is the arrival of a
\* byte (or a power cycle from outside): with a silent host the controller
\* stays where it is.
C23_WaitsForByte ==
    /\ [](pc \in Waiting => ~ENABLED ControllerStep)
    /\ [][(pc \in Waiting) => (HostByte \/ BootStep)]_vars

\* C23 witness: the controller waits in the receive loop for the second of
\* two payload bytes.
C23_Witness ==
    /\ pc = "recv"
    /\ size = ToU32(2)
    /\ recvd = <<LF>>
    /\ Last(out) = "READY"

\* The line x is emitted on this step.
Emits(x) == Count(out', x) > Count(out, x)

\* C24: OK is the line emitted on entering the session; READY is emitted
\* only on the step on which the erase succeeded, before any payload byte is
\* read, and payload bytes are read only after it; CRC?, OK, REBOOT are
\* emitted, in that order, only on the step on which the header is written,
\* after all `size` payload bytes were received.
C24_LiteralOrder ==
    [][ /\ (pc \in {"prompt", "recovery"} /\ pc' = "cmd") =>
              (Last(out') = "OK" /\ Count(out', "OK") = 1)
        /\ Emits("READY") =>
              /\ pc = "erase"
              /\ ops' = <<"erase">>
              /\ mem' = ErasedRegion
              /\ recvd' = <<>>
              /\ out' = Append(out, "READY")
        /\ Len(recvd') > Len(recvd) =>
              /\ Last(out) = "READY"
              /\ out' = out
              /\ "CRC?" \notin Range(out)
        /\ (Emits("CRC?") \/ Emits("REBOOT")) =>
              /\ pc = "finalize"
              /\ Last(out) = "READY"
              /\ Len(recvd) = U32Nat(size)
              /\ ops' = Append(FullPayloadLog, "header")
              /\ mem' = flash_write_header(mem, NewHeader)
              /\ SubSeq(out', Len(out) + 1, Len(out) + 3) = <<"CRC?", "OK", "REBOOT">>
      ]_vars

\* C24 witness: a two-byte update started from the recovery loop has
\* committed with all its literals emitted.
C24_Witness ==
    /\ pc = "reset"
    /\ out = <<"OK", "ERASING...", "READY", "CRC?", "OK", "REBOOT">>
    /\ Len(recvd) = 2

\* The sequence t occurs in the sequence s, in order (not necessarily adjacent).
RECURSIVE IsSubSeq(_, _)
IsSubSeq(t, s) ==
    IF t = <<>> THEN TRUE
    ELSE IF s = <<>> THEN FALSE
    ELSE IF Head(t) = Head(s) THEN IsSubSeq(Tail(t), Tail(s))
    ELSE IsSubSeq(t, Tail(s))

\* The tokens the validation profile requires on the normal handoff path.
HandoffTokens ==
    <<"BL_EVT:DECISION_NORMAL", "BL_EVT:APP_CRC_CHECK", "BL_EVT:APP_CRC_OK",
      "BL_EVT:LOAD_APP", "BL_EVT:HANDOFF", "BL_EVT:HANDOFF_APP">>

\* C25: when the application has received control on the normal path (a
\* boot decision that validated the image), the bootloader has emitted the
\* six BL_EVT tokens of the normal handoff, in order.
C25_HandoffTokens ==
    (pc = "app" /\ validated) => IsSubSeq(HandoffTokens, out)

\* The canonical machine-parsable lines of the serial token contract.
BlEvtLines ==
    Range(HandoffTokens)
    \cup {"BL_EVT:INIT", "BL_EVT:HW_READY", "BL_EVT:APP_CRC_FAIL",
          "BL_EVT:DECISION_RECOVERY", "BL_EVT:FATAL_RESET"}

\* The legacy human-readable status lines.
LegacyLines == {"BOOT?", "OK", "READY", "CRC?", "REBOOT"} \cup ErrLines

\* C26: every legacy status line in the output has a machine-parsable
\* BL_EVT line emitted with it, right before or right after it.
C26_LegacyLinesPaired ==
    \A i \in 1..Len(out) :
        out[i] \in LegacyLines =>
            \/ (i > 1 /\ out[i - 1] \in BlEvtLines)
            \/ (i < Len(out) /\ out[i + 1] \in BlEvtLines)

\* C27 (as stated): whatever symbol the host sends at the boot prompt, the
\* bootloader enters update mode and answers OK.
C27_AnyKeyEntersUpdate ==
    [][PromptRead => (pc' = "cmd" /\ Last(out') = "OK")]_vars

\* C27 (amended): a symbol sent at the boot prompt makes the bootloader
\* enter update mode and answer OK exactly when it is 'u' or 'U'; on any
\* other symbol no OK is emitted and the boot decision is taken.
C27_OnlyUEntersUpdate ==
    [][PromptRead =>
          /\ (pc' = "cmd" /\ Last(out') = "OK") <=> (rx' \in {LowerU, UpperU})
          /\ ("OK" \in Range(out')) <=> (rx' \in {LowerU, UpperU})
          /\ (pc' \in {"app", "recovery"}) <=> (rx' \notin {LowerU, UpperU})
      ]_vars

\* C27 witness: the host sent 'S' at the first prompt of a boot and the
\* installed image was validated and entered, no update mode.
C27_Witness ==
    /\ pc = "app"
    /\ rx = 83
    /\ validated
    /\ "OK" \notin Range(out)

\* C28: in the build without direct boot, the step that commits ends in
\* platform_reset with REBOOT the last line emitted; while the controller is
\* in platform_reset nothing is emitted and the only step is the fresh boot;
\* the application receives control only from the boot prompt, on a symbol
\* from the host, after validate_app succeeded on the stored region.
C28_CommitEndsInReset ==
    /\ []((~directBoot /\ pc = "reset") => (Committed /\ Last(out) = "REBOOT"))
    /\ []((~directBoot /\ pc = "app") => (validated /\ ops = <<>>))
    /\ [][ /\ (~directBoot /\ CommitStep) =>
                 (pc' = "reset" /\ out' = out \o <<"CRC?", "OK", "REBOOT">>)
           /\ (~directBoot /\ pc = "reset") => BootStep
           /\ (~directBoot /\ pc # "app" /\ pc' = "app") =>
                 /\ pc = "prompt"
                 /\ rx' \in PromptBytes \ {LowerU, UpperU}
                 /\ validate_app(mem).ret = 0
                 /\ mem' = mem
                 /\ validated'
         ]_vars

\* C28 witness: in the build without direct boot a two-byte update started
\* at the boot prompt has committed and the controller is in platform_reset.
C28_Witness ==
    /\ ~directBoot
    /\ pc = "reset"
    /\ caller = "prompt"
    /\ out = T1Lines
    /\ recvd = <<LF, LowerU>>

\* C29: in the direct-boot build, the step that commits hands control to the
\* application on that very step: it is not a fresh boot, validate_app is
\* not run on the stored header, no symbol is read, and jump_to_app's lines
\* follow REBOOT; this holds for a session started at the boot prompt and
\* for one started from the recovery loop alike.
C29_DirectHandoff ==
    /\ []((directBoot /\ pc = "app" /\ Committed) =>
              (~validated /\ caller \in {"prompt", "recovery"}))
    /\ [][(directBoot /\ CommitStep) =>
              /\ pc' = "app"
              /\ ~BootStep
              /\ ~validated'
              /\ rx' = rx
              /\ caller' = caller
              /\ caller \in {"prompt", "recovery"}
              /\ out' = out \o <<"CRC?", "OK", "REBOOT">> \o jump_to_app
         ]_vars

\* C29 witness: in the direct-boot build a session started from the
\* recovery loop has committed and the application is in control, the
\* validator not run.
C29_Witness ==
    /\ directBoot
    /\ pc = "app"
    /\ caller = "recovery"
    /\ ~validated
    /\ Last(out) = "APP_HANDOFF"
    /\ Last(ops) = "header"

\* A step on which flash_write_header was called and did not store the
\* whole header: it reported failure.
HeaderFailStep ==
    /\ pc = "finalize"
    /\ Emits("ERR: HEADER") \/ mem' # flash_write_header(mem, NewHeader)
    /\ ops' = Append(ops, "header")

\* C30: a step on which flash_write_header fails appends ERR: HEADER and
\* nothing else, returns to the loop that started the session, and neither
\* resets nor hands off; CRC?, the second OK and REBOOT are emitted, and the
\* session commits, only on a step that stored the whole header.
C30_HeaderFailAborts ==
    [][ /\ HeaderFailStep =>
              /\ out' = Append(out, "ERR: HEADER")
              /\ pc' = caller
              /\ pc' \in {"prompt", "recovery"}
              /\ caller' = "none"
              /\ rx' = rx
              /\ ~BootStep
              /\ {"CRC?", "REBOOT"} \cap Range(out') = {}
              /\ Count(out', "OK") = 1
        /\ (CommitStep \/ Emits("CRC?") \/ Emits("REBOOT")) =>
              /\ pc = "finalize"
              /\ mem' = flash_write_header(mem, NewHeader)
              /\ fw_header_t(mem') = NewHeader
              /\ ~Emits("ERR: HEADER")
      ]_vars

\* C30 witness: a session started at the boot prompt received its two
\* payload bytes, the header write failed, and the controller is back in the
\* loop of the prompt with the payload stored behind an erased header.
C30_Witness ==
    /\ pc = "prompt"
    /\ out = <<MsgEcho, "OK", "ERASING...", "READY", "ERR: HEADER">>
    /\ Len(recvd) = 2
    /\ Payload(mem, 2) = recvd
    /\ ReadU32(mem, 0) = U32Ones
    /\ validate_app(mem).ret # 0

\* C31: between READY and finalizing the session reads exactly `size` bytes:
\* while fewer were read it waits in the receive loop, where every byte value
\* the host may send (CR, LF and 'u' among them) is accepted as data; the
\* k-th byte read is stored unchanged at payload offset k - 1 and nothing is
\* emitted; the loop is left for finalizing exactly when `size` bytes were
\* read, and no byte is read while finalizing.
C31_ExactlySizeBytes ==
    /\ [](pc = "recv" =>
             /\ Len(recvd) < U32Nat(size)
             /\ Last(out) = "READY"
             /\ \A b \in DataBytes : ENABLED PayloadByte(b, "good"))
    /\ [](pc \in {"recv", "finalize"} =>
             \A k \in 1..Len(recvd) : PayloadAt(mem, k - 1) = recvd[k])
    /\ [](pc = "finalize" => Len(recvd) = U32Nat(size))
    /\ [][ /\ (pc = "recv" /\ ~BootStep) =>
                 /\ rx' \in DataBytes
                 /\ recvd' = Append(recvd, rx')
                 /\ mem' = [mem EXCEPT ![HeaderSize + Len(recvd)] = rx']
                 /\ out' = out
                 /\ pc' = IF Len(recvd') = U32Nat(size) THEN "finalize" ELSE "recv"
           /\ pc = "finalize" => (recvd' = recvd /\ rx' = rx) \/ BootStep
         ]_vars

\* C31 witness: a session has read 'u' and then CR as its two payload
\* bytes, stored them and left the receive loop.
C31_Witness ==
    /\ pc = "finalize"
    /\ size = ToU32(2)
    /\ recvd = <<LowerU, CR>>
    /\ PayloadAt(mem, 0) = LowerU
    /\ PayloadAt(mem, 1) = CR

\* C32: the region goes from not valid to valid only on a step that writes
\* the header (the session is finalizing), and never on a step on which the
\* session aborts with an ERR: line; erase steps, payload steps and steps
\* outside a session never make a not-valid region valid.
C32_ValidOnlyByHeaderWrite ==
    [][(~ValidImage(mem) /\ ValidImage(mem')) =>
          /\ pc = "finalize"
          /\ ~(\E e \in ErrLines : Emits(e))
          /\ pc' \notin {"prompt", "recovery"} \/ BootStep
      ]_vars

\* C32 witness: the header write of a session started from the recovery loop
\* has made the region, not valid since the erase, valid; the session has
\* committed and the controller is in platform_reset.
C32_Witness ==
    /\ ~directBoot
    /\ pc = "reset"
    /\ caller = "recovery"
    /\ ops = <<"erase", "payload", "header">>
    /\ ValidImage(mem)
    /\ Payload(mem, 1) = <<CR>>

\* C33: in every build, on every step that calls jump_to_app and for as long
\* as the application has control, the region satisfies the validity
\* predicate: right magic, size in 1 .. capacity, stored checksum equal to
\* the checksum of the first `size` payload bytes.
C33_JumpOnlyToValidImage ==
    /\ [](pc = "app" => ValidImage(mem))
    /\ [][(pc # "app" /\ pc' = "app") =>
              /\ ValidImage(mem')
              /\ fw_header_t(mem').magic = BOOT_MAGIC
              /\ SubSeq(out', Len(out') - Len(jump_to_app) + 1, Len(out')) = jump_to_app
         ]_vars

\* C33 witness: in the direct-boot build a session has committed the
\* one-byte payload CR and jump_to_app was called without validate_app, on a
\* region that is valid.
C33_Witness ==
    /\ directBoot
    /\ pc = "app"
    /\ ~validated
    /\ recvd = <<CR>>
    /\ ValidImage(mem)

\* The n bytes at offset off from APP_BASE lie inside
\* [APP_BASE, APP_BASE + APP_MAX_SIZE).
InsideApp(off, n) == ~OutsideApp(U32Add(APP_BASE, ToU32(off)), ToU32(n))

\* The offsets from APP_BASE at which a step changes the region.
Changed == {i \in Offsets : mem'[i] # mem[i]}

\* C34: from the size test to the end of a session the size is in
\* 1 .. APP_MAX_SIZE - 16; the receive loop stores byte j at APP_BASE + 16 + j
\* with j < size, an address inside the partition, and changes no other
\* byte; the header step changes only APP_BASE .. APP_BASE + 15; outside the
\* erase, receive and header steps the region is not written.
C34_WritesInsidePartition ==
    /\ [](pc \in {"erase", "recv", "finalize"} =>
             (size # U32Zero /\ U32Leq(size, PayloadCapacity)))
    /\ [](pc = "recv" =>
             /\ j < U32Nat(size)
             /\ InsideApp(HeaderSize + j, 1)
             /\ HeaderSize + j < APP_MAX_SIZE)
    /\ [][ /\ pc = "recv" => Changed \subseteq {HeaderSize + j}
           /\ pc = "finalize" => (Changed \subseteq 0..(HeaderSize - 1) /\ InsideApp(0, HeaderSize))
           /\ pc \notin {"erase", "recv", "finalize"} => Changed = {}
         ]_vars

\* C34 witness: a session declared the greatest modelled size and has
\* stored its last payload byte, at offset 16 + size - 1.
C34_Witness ==
    /\ pc = "finalize"
    /\ size = ToU32(MaxPayload)
    /\ j = MaxPayload
    /\ mem[HeaderSize + MaxPayload - 1] = CR
    /\ ops = FullPayloadLog

\* The exact number a string of at most fourteen digits denotes, as three
\* 16-bit limbs, most significant first (no wrapping: the value is below 2^48).
RECURSIVE DecLimbs(_)
DecLimbs(d) ==
    IF d = <<>> THEN <<0, 0, 0>>
    ELSE LET v == DecLimbs(SubSeq(d, 1, Len(d) - 1))
             l0 == v[3] * 10 + (Last(d) - Digit0)
             l1 == v[2] * 10 + (l0 \div 65536)
             l2 == v[1] * 10 + (l1 \div 65536)
         IN  <<l2, l1 % 65536, l0 % 65536>>

\* The exact value of the digits of a size field, taken mod 2^32.
FieldMod32(l) == LET v == DecLimbs(SelectSeq(l, IsDigit)) IN <<v[2], v[3]>>

\* C35: while the size field is read, size is the exact decimal value of the
\* digit bytes read so far taken mod 2^32, non-digit bytes being skipped with
\* no output and no error; on the CR or LF that ends the field the bound test
\* is applied to that residue: 0 (the empty field included) or more than the
\* capacity is rejected with ERR: SIZE, every residue in 1 .. capacity is
\* accepted with that size, also when the exact value is 2^32 or more.
C35_SizeIsValueMod32 ==
    /\ [](pc = "size" => size = FieldMod32(line))
    /\ [][ /\ (pc = "size" /\ rx' \notin {CR, LF} /\ ~BootStep) =>
                 /\ pc' = "size"
                 /\ line' = Append(line, rx')
                 /\ out' = out
                 /\ size' = IF IsDigit(rx') THEN FieldMod32(line') ELSE size
           /\ (pc = "size" /\ rx' \in {CR, LF}) =>
                 LET w == FieldMod32(line)
                 IN  IF w = U32Zero \/ U32Gt(w, PayloadCapacity)
                     THEN SizeRejected
                     ELSE /\ pc' = "erase"
                          /\ size' = w
                          /\ out' = Append(out, "ERASING...")
         ]_vars

\* C35 witness: the host declared 4294967297 (2^32 + 1) and the session
\* accepted it as size 1 and went on to erase.
C35_Witness ==
    /\ pc = "erase"
    /\ line = <<52, 50, 57, 52, 57, 54, 55, 50, 57, 55, LF>>
    /\ size = ToU32(1)
    /\ Last(out) = "ERASING..."

\* C36: the one CR or LF byte that the size loop reads ends the field; no
\* byte is read between it and READY, and the first byte read after READY is
\* stored as payload byte 0 whatever it is. After a size line ended by CR a
\* following LF can be read and is stored at payload offset 0, so that of the
\* `size` bytes the session consumes only size - 1 follow that LF: the last
\* payload byte of a host that sent CR LF stays unread.
C36_ByteAfterTerminatorIsData ==
    /\ []((pc = "recv" /\ recvd = <<>> /\ Last(line) = CR) =>
              ENABLED PayloadByte(LF, "good"))
    /\ []((pc = "finalize" /\ Last(line) = CR /\ recvd[1] = LF) =>
              /\ PayloadAt(mem, 0) = LF
              /\ Len(Tail(recvd)) = U32Nat(size) - 1)
    /\ [][ /\ (pc = "size" /\ rx' \in {CR, LF}) => pc' \in {"erase", caller}
           /\ (pc = "erase" /\ ~BootStep) => rx' = rx
           /\ (pc = "recv" /\ recvd = <<>> /\ ~BootStep) =>
                 /\ Last(line) \in {CR, LF}
                 /\ rx = Last(line)
                 /\ Last(out) = "READY"
                 /\ recvd' = <<rx'>>
                 /\ PayloadAt(mem', 0) = rx'
         ]_vars

\* C36 witness: the host ended the size line "2" with CR LF; the LF was
\* stored as payload byte 0 and 'u', the first byte the host meant as
\* payload, as payload byte 1, and the session is finalizing.
C36_Witness ==
    /\ pc = "finalize"
    /\ line = <<Digit0 + 2, CR>>
    /\ recvd = <<LF, LowerU>>
    /\ PayloadAt(mem, 0) = LF
    /\ PayloadAt(mem, 1) = LowerU

\* C37: in the recovery loop a session starts only on the lowercase 'u';
\* the uppercase 'U', on which the loop of the boot prompt starts one, can be
\* read there like every other byte and is consumed with nothing emitted
\* (no echo either), the controller staying in the loop with the region, the
\* build and the validation state as they were.
C37_RecoveryLowercaseOnly ==
    /\ [](pc = "recovery" => ENABLED RecoveryByte(UpperU))
    /\ [](pc = "prompt" => ENABLED (Choice(UpperU) /\ pc' = "cmd"))
    /\ [][ /\ (pc = "recovery" /\ pc' = "cmd") => (rx' = LowerU /\ out' = <<"OK">>)
           /\ (pc = "recovery" /\ rx' \in PromptBytes \ {LowerU}) =>
                 /\ pc' = "recovery"
                 /\ out' = <<>>
                 /\ ops' = <<>>
                 /\ UNCHANGED <<mem, caller, j, size, line, validated, newMain, directBoot>>
         ]_vars

\* C37 witness: the recovery loop has consumed an uppercase 'U' and is
\* still waiting, nothing emitted.
C37_Witness ==
    /\ pc = "recovery"
    /\ rx = UpperU
    /\ out = <<>>
    /\ ~validated

\* The ERR: lines in a sequence of emitted lines.
ErrCount(s) == Cardinality({i \in 1..Len(s) : s[i] \in ErrLines})

\* A step on which the session ends committed, having read the five bytes
\* of the command, the size line with its terminator and `size` payload bytes.
EndsCommitted ==
    /\ pc = "finalize"
    /\ pc' \in {"app", "reset"}
    /\ mem' = flash_write_header(mem, NewHeader)
    /\ ErrCount(out') = 0
    /\ Last(line) \in {CR, LF}
    /\ nread = Len(cmd) + Len(line) + U32Nat(size)
    /\ nread' = nread

\* A step on which the session ends aborted with the one ERR: line e, for
\* the reason that line names.
EndsAborted(e) ==
    /\ out' = Append(out, e)
    /\ ErrCount(out') = 1
    /\ {"CRC?", "REBOOT"} \cap Range(out') = {}
    /\ pc' = caller
    /\ pc' \in {"prompt", "recovery"}
    /\ e = "ERR: CMD" => (pc = "cmd" /\ rx' # cmd[j + 1])
    /\ e = "ERR: SIZE" =>
          (pc = "size" /\ rx' \in {CR, LF} /\ DeclaredSizeBad(FieldMod32(line)))
    /\ e = "ERR: ERASE" => (pc = "erase" /\ ops' = <<"erase">>)
    /\ e = "ERR: HEADER" => (pc = "finalize" /\ ops' = Append(ops, "header"))

\* C38: with a host that keeps supplying bytes and storage operations that
\* return, every session terminates; a session given the well-formed token,
\* a size line with a value in 1 .. capacity and its payload bytes ends
\* committed on the return of its header write, having consumed exactly
\* 5 + (length of the size line including its terminator) + n bytes, each
\* read step counting one; every session that terminates ends in exactly
\* one of committed or aborted with exactly one ERR: line, ERR: CMD only on a
\* byte that differs from the token and ERR: SIZE only on a size line whose
\* value is outside 1 .. capacity.
C38_TerminatesCommittedOrAborted ==
    /\ InSession ~> ~InSession
    /\ [][ /\ (pc \in {"erase", "finalize"} /\ ~InSession') => EndsCommitted
           /\ (InSession /\ ~InSession') =>
                 (EndsCommitted \/ \E e \in ErrLines : EndsAborted(e))
           /\ (InSession /\ \E e \in ErrLines : Emits(e)) => ~InSession'
           /\ (InSession /\ InSession') =>
                 nread' = IF rx' # rx \/ pc \in {"cmd", "size", "recv"} THEN nread + 1
                          ELSE nread
           /\ (~InSession /\ InSession') => (nread' = 0 /\ pc' = "cmd" /\ j' = 0)
         ]_vars

\* C38 witness: in the direct-boot build a session given "SEND ", the size
\* line 4294967297 ended by CR, and one payload byte has committed after
\* 5 + 11 + 1 bytes.
C38_Witness ==
    /\ directBoot
    /\ pc = "app"
    /\ line = <<52, 50, 57, 52, 57, 54, 55, 50, 57, 55, CR>>
    /\ size = ToU32(1)
    /\ nread = 17
    /\ Last(ops) = "header"

====
